---- MODULE Spec2Model ----
(***************************************************************************)
(* Model of src/src/main.js (LottieInteractivity): construction, the      *)
(* start()/stop() listener lifecycle, boundingBoxUtils() and the four      *)
(* event handlers, driving an external lottie player.                      *)
(*                                                                         *)
(* Numbers.  JavaScript numbers are modelled as extended rationals: a      *)
(* finite value is [k |-> "fin", n, d] with d > 0, and the IEEE specials   *)
(* are "nan", "pinf", "ninf".  All geometry drawn below is made of small   *)
(* integers and all action bounds are short decimals, so two distinct      *)
(* values that the code compares differ by far more than one ulp and the   *)
(* comparisons of the code agree with the exact ones; the ceilings that    *)
(* the scenarios below reach are taken of values that are either exact in  *)
(* binary floating point or far from an integer.                           *)
(***************************************************************************)
EXTENDS Integers, Sequences, FiniteSets, TLC

VARIABLES inst, listeners, life, player, ev

vars == <<inst, listeners, life, player, ev>>

----------------------------------------------------------------------------
(* Extended rational arithmetic (the JavaScript operators / - * < > >= <=  *)
(* and Math.ceil on the values the handlers compute).                      *)

Fin(n, d) == [k |-> "fin", n |-> n, d |-> d]
Int2Num(i) == Fin(i, 1)
NaN == [k |-> "nan", n |-> 0, d |-> 1]
PInf == [k |-> "pinf", n |-> 0, d |-> 1]
NInf == [k |-> "ninf", n |-> 0, d |-> 1]

Sign(a) ==
  CASE a.k = "nan" -> 0
    [] a.k = "pinf" -> 1
    [] a.k = "ninf" -> -1
    [] OTHER -> IF a.n > 0 THEN 1 ELSE IF a.n < 0 THEN -1 ELSE 0

IsFin(a) == a.k = "fin"

\* a - b
NumSub(a, b) ==
  CASE a.k = "nan" \/ b.k = "nan" -> NaN
    [] IsFin(a) /\ IsFin(b) -> Fin(a.n * b.d - b.n * a.d, a.d * b.d)
    [] IsFin(a) -> IF b.k = "pinf" THEN NInf ELSE PInf
    [] IsFin(b) -> a
    [] OTHER -> IF a.k = b.k THEN NaN ELSE a

\* a * b
NumMul(a, b) ==
  CASE a.k = "nan" \/ b.k = "nan" -> NaN
    [] IsFin(a) /\ IsFin(b) -> Fin(a.n * b.n, a.d * b.d)
    [] OTHER -> IF Sign(a) * Sign(b) = 0 THEN NaN
                ELSE IF Sign(a) * Sign(b) > 0 THEN PInf ELSE NInf

\* a / b
NumDiv(a, b) ==
  CASE a.k = "nan" \/ b.k = "nan" -> NaN
    [] IsFin(a) /\ IsFin(b) ->
         IF b.n = 0
           THEN (IF a.n = 0 THEN NaN ELSE IF a.n > 0 THEN PInf ELSE NInf)
           ELSE IF b.n > 0 THEN Fin(a.n * b.d, a.d * b.n)
                ELSE Fin(-(a.n * b.d), a.d * (-b.n))
    [] IsFin(a) -> Fin(0, 1)
    [] IsFin(b) -> IF (Sign(a) > 0) = (b.n >= 0) THEN PInf ELSE NInf
    [] OTHER -> NaN

\* a < b (false whenever an operand is NaN)
NumLt(a, b) ==
  CASE a.k = "nan" \/ b.k = "nan" -> FALSE
    [] IsFin(a) /\ IsFin(b) -> a.n * b.d < b.n * a.d
    [] a.k = "ninf" -> b.k # "ninf"
    [] a.k = "pinf" -> FALSE
    [] OTHER -> b.k = "pinf"

\* a = b as numbers
NumEq(a, b) ==
  CASE a.k = "nan" \/ b.k = "nan" -> FALSE
    [] IsFin(a) /\ IsFin(b) -> a.n * b.d = b.n * a.d
    [] OTHER -> a.k = b.k

NumGt(a, b) == NumLt(b, a)
NumLe(a, b) == NumLt(a, b) \/ NumEq(a, b)
NumGe(a, b) == NumLe(b, a)

\* Math.ceil: the least integer not below a; specials are returned as is.
MathCeil(a) ==
  IF IsFin(a) THEN Fin(-((-a.n) \div a.d), 1) ELSE a

----------------------------------------------------------------------------
(* Input domains.                                                          *)

MaxActions == 2

\* Longest action list of the pointer-mode specification.
MaxMoveActions == 1

Modes == {"scroll", "hover", "mouseposition"}

\* Forms of the `player` option that resolve to a usable player.
PlayerForms == {"selector", "element", "instance"}

\* Every form of the `player` option: also no option at all, a selector
\* matching nothing, a selector matching an element that is no
\* <lottie-player>, and such an element given directly.
AllPlayerForms ==
  PlayerForms \cup {"absent", "selectorMissing", "selectorPlain", "elementPlain"}

\* The `container` option: an element, or nothing that resolves to one.
ContainerForms == {"element", "absent"}

\* The `playerInstance` option.
HandleForms == {"absent", "supplied"}

Undefined == [def |-> FALSE, v |-> <<>>]
Frames(f) == [def |-> TRUE, v |-> f]

Dec(n) == Fin(n, 10)

\* Action descriptors the page author may configure.  start/end are
\* decimals; frames may be missing (a malformed action).
Action(s, e, t, f) == [start |-> s, end |-> e, type |-> t, frames |-> f]

ActionUniverse ==
  { Action(Dec(5), Dec(7), "seek", Frames(<<0, 100>>)),
    Action(Dec(0), Dec(3), "loop", Frames(<<0, 100>>)),
    Action(Dec(3), Dec(7), "play", Frames(<<0, 100>>)),
    Action(Dec(0), Dec(10), "stop", Frames(<<10, 50>>)),
    Action(Dec(3), Dec(10), "stop", Undefined),
    Action(Dec(0), Dec(5), "seek", Undefined),
    Action(Dec(-10), Dec(20), "seek-yaxis", Undefined),
    Action(Dec(5), Dec(10), "seek-xaxis", Undefined) }

ActionLists == UNION { [1..n -> ActionUniverse] : n \in 0..MaxActions }

\* Container bounding box and viewport height sampled by one event:
\* top and height of getBoundingClientRect(), window.innerHeight.
Geo(t, h, vh) == [top |-> t, height |-> h, vh |-> vh]

Geometries ==
  { Geo(t, 400, 800) : t \in {-500, -400, -280, 100, 200, 800, 900} }
  \cup { Geo(0, 0, 0), Geo(-5, 0, 0) }

\* One mousemove: the pointer's page coordinates, and offsetLeft/offsetTop of
\* the container and of each ancestor on its offsetParent chain that itself
\* has an offsetParent, container first.
Move(x, y, chain) == [mouseEvent |-> [pageX |-> x, pageY |-> y], chain |-> chain]

Moves ==
  { Move(65, 130, << [offsetLeft |-> 10, offsetTop |-> 20],
                     [offsetLeft |-> 5, offsetTop |-> 10] >>),
    Move(110, 131, <<>>) }

TotalFramesSet == {200}

----------------------------------------------------------------------------
(* The instance.                                                           *)

\* Lines 13-22: what `player` is after the resolution block.  A selector
\* string stays a string unless the element found is a <lottie-player>; an
\* element that is no <lottie-player> stays that element.
ResolvePlayer(form) ==
  CASE form \in {"selector", "element", "instance"} -> "AnimationItem"
    [] form \in {"selectorMissing", "selectorPlain"} -> "string"
    [] form = "elementPlain" -> "element"
    [] OTHER -> "undefined"

\* Line 16: this.playerInstance is whatever querySelector returned, and is
\* assigned on the selector path only.
ResolvePlayerInstance(form) ==
  CASE form = "selector" -> "elem"
    [] form = "selectorMissing" -> "null"
    [] form = "selectorPlain" -> "plain"
    [] OTHER -> "undefined"

\* Lines 31-38: the container, or player.wrapper as the fallback.
ResolveContainer(form, resolved) ==
  IF form = "element" THEN "elem"
  ELSE IF resolved = "AnimationItem" THEN "wrapper" ELSE "undefined"

\* Lines 25-27: the constructor throws when `player` is falsy.
ConstructThrows(resolved) == resolved = "undefined"

\* A failed construction leaves no instance; the record only tells which
\* player option was rejected.
NoInstance(opts) ==
  [ threw |-> TRUE, mode |-> opts.mode, actions |-> <<>>, player |-> "undefined",
    playerInstance |-> "undefined", container |-> "undefined",
    handle |-> "absent", option |-> opts.player ]

\* constructor.  The playerInstance option is destructured (line 11) and
\* never stored; `handle` only remembers whether it was supplied.
Construct(opts) ==
  LET resolved == ResolvePlayer(opts.player)
  IN  IF ConstructThrows(resolved) THEN NoInstance(opts)
      ELSE [ threw |-> FALSE,
             mode |-> opts.mode,
             actions |-> opts.actions,
             player |-> resolved,
             playerInstance |-> ResolvePlayerInstance(opts.player),
             container |-> ResolveContainer(opts.container, resolved),
             handle |-> opts.playerInstance,
             option |-> "accepted" ]

Options ==
  [ mode : Modes, actions : ActionLists, player : PlayerForms,
    container : {"element"}, playerInstance : {"absent"} ]

\* Faulty variant: resolution keeps the last matching action instead of the first.
RECURSIVE FindLastFrom(_, _, _)
FindLastFrom(actions, cp, i) ==
  IF i < 1 THEN 0
  ELSE IF NumGe(cp, actions[i].start) /\ NumLe(cp, actions[i].end) THEN i
  ELSE FindLastFrom(actions, cp, i - 1)

FindLast(actions, cp) == FindLastFrom(actions, cp, Len(actions))

\* Scan of Array.prototype.find with the predicate of line 61.
RECURSIVE FindFrom(_, _, _)
FindFrom(actions, cp, i) ==
  IF i > Len(actions) THEN 0
  ELSE IF NumGe(cp, actions[i].start) /\ NumLe(cp, actions[i].end) THEN i
  ELSE FindFrom(actions, cp, i + 1)

\* this.actions.find(...): index of the first action whose inclusive range
\* contains currentPercent, 0 when none.
Find(actions, cp) == FindFrom(actions, cp, 1)

CurrentPercent(geo) ==
  NumDiv(Int2Num(geo.vh - geo.top), Int2Num(geo.vh + geo.height))

\* Faulty variant: the viewport test forgets the upper side.
OutOfViewportLowOnly(cp) == NumLt(cp, Int2Num(0))

OutOfViewport(cp) == NumLt(cp, Int2Num(0)) \/ NumGt(cp, Int2Num(1))

NoResult ==
  [def |-> FALSE, height |-> 0, bottom |-> 0, currentPercent |-> NaN, idx |-> 0]

\* Faulty variant: with no matching action the first configured action is used.
boundingBoxUtilsFallback(self, geo) ==
  LET actions == self.actions
      currentPercent == CurrentPercent(geo)
      idx == Find(actions, currentPercent)
  IN  IF self.container = "undefined" THEN NoResult
      ELSE IF OutOfViewport(currentPercent) THEN NoResult
      ELSE IF idx = 0 /\ Len(actions) = 0 THEN NoResult
      ELSE [ def |-> TRUE, height |-> geo.height, bottom |-> geo.top + geo.height,
             currentPercent |-> currentPercent, idx |-> IF idx = 0 THEN 1 ELSE idx ]

\* boundingBoxUtils(): undefined (def = FALSE) or
\* { height, bottom, currentPercent, action }; the action is carried as its
\* index in this.actions.  With no container getBoundingClientRect() throws
\* a TypeError at line 49; it reaches the catch of the calling handler from
\* the same statement as the destructuring of an undefined result does, so
\* both are the result without a value.
boundingBoxUtils(self, geo) ==
  LET actions == self.actions
      currentPercent == CurrentPercent(geo)
      idx == Find(actions, currentPercent)
  IN  IF self.container = "undefined" THEN NoResult
      ELSE IF OutOfViewport(currentPercent) THEN NoResult
      ELSE IF idx = 0 THEN NoResult
      ELSE [ def |-> TRUE, height |-> geo.height, bottom |-> geo.top + geo.height,
             currentPercent |-> currentPercent, idx |-> idx ]

----------------------------------------------------------------------------
(* The external player and the calls made on it.                           *)

NoNum == [k |-> "undef", n |-> 0, d |-> 1]

\* One method call: receiver (this.player or this.playerInstance), method,
\* frame-range argument, numeric argument, boolean second argument.
Call(on, m, frames, num, flag) ==
  [on |-> on, m |-> m, frames |-> frames, num |-> num, flag |-> flag]

PlaySegments(frames, flag) == Call("player", "playSegments", frames, NoNum, flag)
GoToAndStop(num, flag) == Call("player", "goToAndStop", Undefined, num, flag)
ResetSegments == Call("player", "resetSegments", Undefined, NoNum, "undefined")
PlayerStop == Call("player", "stop", Undefined, NoNum, "undefined")
PlayerPlay == Call("player", "play", Undefined, NoNum, "undefined")
Seek(num) == Call("playerInstance", "seek", Undefined, num, "undefined")

\* Effect of a completed call on the player's readable flags: playSegments
\* and play leave the player running, goToAndStop and stop leave it paused.
PlayerApply(p, call) ==
  CASE call.m \in {"playSegments", "play"} -> [p EXCEPT !.isPaused = FALSE]
    [] call.m \in {"goToAndStop", "stop"} -> [p EXCEPT !.isPaused = TRUE]
    [] OTHER -> p

\* playSegments reads arr[0] of its frame range: an undefined range makes
\* the player throw a TypeError.
PlayerRejects(call) ==
  call.m = "playSegments" /\ ~call.frames.def

----------------------------------------------------------------------------
(* Handler bodies.  A run is the player after the statements executed so   *)
(* far, the calls issued so far, and whether an exception is propagating.  *)

\* idx records which action this invocation's boundingBoxUtils() resolved.
Begin(p, bb) == [player |-> p, calls |-> <<>>, raised |-> FALSE, idx |-> bb.idx]

Throw(r) == [r EXCEPT !.raised = TRUE]

\* Statement `receiver.method(args)`.  On a this.player that is no
\* AnimationItem the method is undefined and the call is a TypeError.
Invoke(r, call) ==
  IF r.raised THEN r
  ELSE IF call.on = "player" /\ r.player.kind # "AnimationItem" THEN Throw(r)
  ELSE IF PlayerRejects(call)
       THEN [r EXCEPT !.calls = Append(@, call), !.raised = TRUE]
       ELSE [r EXCEPT !.calls = Append(@, call), !.player = PlayerApply(@, call)]

\* Faulty variant: the loop flag is never forced.
SetLoopSkipped(r) == r

\* Statement `this.player.loop = true`.  The class body is strict code:
\* on a this.player that is still the selector string it is a TypeError.
SetLoop(r) ==
  IF r.raised THEN r
  ELSE IF r.player.kind = "string" THEN Throw(r)
  ELSE [r EXCEPT !.player.loop = TRUE]

\* Expression frames[0] on a defined frames array.
First(frames) == IF Len(frames.v) >= 1 THEN Int2Num(frames.v[1]) ELSE NoNum

\* Faulty variant: the whole play branch is guarded by the paused flag.
hoverStartBodyPlayGuarded(self, p, geo) ==
  LET bb == boundingBoxUtils(self, geo)
      action == self.actions[bb.idx]
      r == Begin(p, bb)
  IN  IF ~bb.def THEN Throw(r)
      ELSE CASE action.type = "loop" ->
                  IF p.isPaused THEN Invoke(r, PlaySegments(action.frames, "true"))
                  ELSE r
             [] action.type = "play" ->
                  IF p.isPaused
                    THEN Invoke(Invoke(r, ResetSegments),
                                PlaySegments(action.frames, "undefined"))
                    ELSE r
             [] action.type = "stop" ->
                  IF ~action.frames.def THEN Throw(r)
                  ELSE Invoke(Invoke(r, GoToAndStop(First(action.frames), "undefined")),
                              PlayerStop)
             [] OTHER -> r

\* Lines 99-115.
hoverStartBody(self, p, geo) ==
  LET bb == boundingBoxUtils(self, geo)
      action == self.actions[bb.idx]
      r == Begin(p, bb)
  IN  IF ~bb.def THEN Throw(r)
      ELSE CASE action.type = "loop" ->
                  IF p.isPaused THEN Invoke(r, PlaySegments(action.frames, "true"))
                  ELSE r
             [] action.type = "play" ->
                  Invoke(IF p.isPaused THEN Invoke(r, ResetSegments) ELSE r,
                         PlaySegments(action.frames, "undefined"))
             [] action.type = "stop" ->
                  IF ~action.frames.def THEN Throw(r)
                  ELSE Invoke(Invoke(r, GoToAndStop(First(action.frames), "undefined")),
                              PlayerStop)
             [] OTHER -> r

\* Faulty variant: leave mirrors enter for stop actions (halts instead of resuming).
hoverEndBodySymmetric(self, p, geo) ==
  LET bb == boundingBoxUtils(self, geo)
      action == self.actions[bb.idx]
      r == Begin(p, bb)
  IN  IF ~bb.def THEN Throw(r)
      ELSE CASE action.type \in {"loop", "play", "stop"} -> Invoke(r, PlayerStop)
             [] OTHER -> r

\* Lines 124-132.
hoverEndBody(self, p, geo) ==
  LET bb == boundingBoxUtils(self, geo)
      action == self.actions[bb.idx]
      r == Begin(p, bb)
  IN  IF ~bb.def THEN Throw(r)
      ELSE CASE action.type = "loop" -> Invoke(r, PlayerStop)
             [] action.type = "play" -> Invoke(r, PlayerStop)
             [] action.type = "stop" ->
                  Invoke(r, PlaySegments(action.frames, "true"))
             [] OTHER -> r

\* Faulty variant: the frame is rounded down.
SeekFrameFloor(currentPercent, action, totalFrames) ==
  LET v == NumMul(NumDiv(NumSub(currentPercent, action.start),
                         NumSub(action.end, action.start)),
                  Int2Num(totalFrames))
  IN  IF IsFin(v) THEN Fin(v.n \div v.d, 1) ELSE v

\* Line 150.
SeekFrame(currentPercent, action, totalFrames) ==
  MathCeil(NumMul(NumDiv(NumSub(currentPercent, action.start),
                         NumSub(action.end, action.start)),
                  Int2Num(totalFrames)))

\* Faulty variant: the loop branch restarts the segment on every tick.
scrollBodyLoopAlways(self, p, geo) ==
  LET bb == boundingBoxUtils(self, geo)
      action == self.actions[bb.idx]
      r == IF bb.def THEN SetLoop(Begin(p, bb)) ELSE Throw(Begin(p, bb))
  IN  IF ~bb.def THEN r
      ELSE CASE action.type = "seek" ->
                  Invoke(Invoke(r, PlaySegments(action.frames, "true")),
                         GoToAndStop(SeekFrame(bb.currentPercent, action, p.totalFrames),
                                     "true"))
             [] action.type = "loop" ->
                  Invoke(r, PlaySegments(action.frames, "true"))
             [] action.type = "play" ->
                  Invoke(IF p.isPaused THEN Invoke(r, ResetSegments) ELSE r,
                         PlayerPlay)
             [] action.type = "stop" ->
                  IF ~action.frames.def THEN Throw(r)
                  ELSE Invoke(Invoke(r, GoToAndStop(First(action.frames), "undefined")),
                              PlayerStop)
             [] OTHER -> r

\* Lines 140-169.
scrollBody(self, p, geo) ==
  LET bb == boundingBoxUtils(self, geo)
      action == self.actions[bb.idx]
      r == IF bb.def THEN SetLoop(Begin(p, bb)) ELSE Throw(Begin(p, bb))
  IN  IF ~bb.def THEN r
      ELSE CASE action.type = "seek" ->
                  Invoke(Invoke(r, PlaySegments(action.frames, "true")),
                         GoToAndStop(SeekFrame(bb.currentPercent, action, p.totalFrames),
                                     "true"))
             [] action.type = "loop" ->
                  IF p.isPaused THEN Invoke(r, PlaySegments(action.frames, "true"))
                  ELSE r
             [] action.type = "play" ->
                  Invoke(IF p.isPaused THEN Invoke(r, ResetSegments) ELSE r,
                         PlayerPlay)
             [] action.type = "stop" ->
                  IF ~action.frames.def THEN Throw(r)
                  ELSE Invoke(Invoke(r, GoToAndStop(First(action.frames), "undefined")),
                              PlayerStop)
             [] OTHER -> r

\* Lines 183-187: cumulative offsetLeft / offsetTop over the offsetParent chain.
RECURSIVE SumLeft(_)
SumLeft(chain) ==
  IF chain = <<>> THEN 0 ELSE Head(chain).offsetLeft + SumLeft(Tail(chain))

RECURSIVE SumTop(_)
SumTop(chain) ==
  IF chain = <<>> THEN 0 ELSE Head(chain).offsetTop + SumTop(Tail(chain))

\* Lines 204 and 208: Math.ceil((pos / divisor) * 100); the string passed to
\* seek is the decimal rendering of this number followed by '%'.
Percentage(pos, divisor) ==
  MathCeil(NumMul(NumDiv(Int2Num(pos), Int2Num(divisor)), Int2Num(100)))

\* Faulty variant: the seek is skipped while the player is running.
InvokeSeekWhenPaused(self, r, num) ==
  IF ~r.player.isPaused THEN r
  ELSE IF self.playerInstance # "elem" THEN Throw(r)
  ELSE Invoke(r, Seek(num))

\* Statement `this.playerInstance.seek(percentageString)`.
InvokeSeek(self, r, num) ==
  IF self.playerInstance # "elem" THEN Throw(r)
  ELSE Invoke(r, Seek(num))

\* Faulty variant: every type other than seek-yaxis is treated as seek-xaxis.
mousePositionBodyElse(self, p, geo, mouseEvent, chain) ==
  LET bb == boundingBoxUtils(self, geo)
      action == self.actions[bb.idx]
      r == Begin(p, bb)
      xpos == mouseEvent.pageX - SumLeft(chain)
      ypos == mouseEvent.pageY - SumTop(chain)
  IN  IF ~bb.def THEN Throw(r)
      ELSE IF action.type = "seek-yaxis"
             THEN InvokeSeek(self, r, Percentage(ypos, bb.height))
             ELSE InvokeSeek(self, r, Percentage(xpos, bb.bottom))

\* Lines 176-211 (mouseEvent is the event object the DOM passes).
mousePositionBody(self, p, geo, mouseEvent, chain) ==
  LET bb == boundingBoxUtils(self, geo)
      action == self.actions[bb.idx]
      r == Begin(p, bb)
      xpos == mouseEvent.pageX - SumLeft(chain)
      ypos == mouseEvent.pageY - SumTop(chain)
  IN  IF ~bb.def THEN Throw(r)
      ELSE CASE action.type = "seek-yaxis" ->
                  InvokeSeek(self, r, Percentage(ypos, bb.height))
             [] action.type = "seek-xaxis" ->
                  InvokeSeek(self, r, Percentage(xpos, bb.bottom))
             [] OTHER -> r

\* Faulty variant: no catch around the body, the exception reaches the caller.
TryRethrow(r) ==
  [ player |-> r.player, calls |-> r.calls, raised |-> r.raised, idx |-> r.idx,
    escaped |-> r.raised ]

\* try { body } catch (e) {}: whatever the body raised stays inside.
TryCatch(r) ==
  [ player |-> r.player, calls |-> r.calls, raised |-> r.raised, idx |-> r.idx,
    escaped |-> FALSE ]

hoverStartHandler(self, p, geo) == TryCatch(hoverStartBody(self, p, geo))

hoverEndHandler(self, p, geo) == TryCatch(hoverEndBody(self, p, geo))

scrollHandler(self, p, geo) == TryCatch(scrollBody(self, p, geo))

mousePositionHandler(self, p, geo, mouseEvent, chain) ==
  TryCatch(mousePositionBody(self, p, geo, mouseEvent, chain))

----------------------------------------------------------------------------
(* State machine.                                                          *)

NoGeo == Geo(0, 0, 0)
NoPointer == [pageX |-> 0, pageY |-> 0]

NoPlayer == [kind |-> "none", loop |-> FALSE, isPaused |-> FALSE, totalFrames |-> 0]

\* Memory, kept while the player changes on its own, of the handled
\* mousemove that preceded the change: its inputs, the player before it and
\* the calls it issued.
NoLast ==
  [ def |-> FALSE, geo |-> NoGeo, mouseEvent |-> NoPointer, chain |-> <<>>,
    pre |-> NoPlayer, calls |-> <<>> ]

Last(geo, mouseEvent, chain, pre, calls) ==
  [ def |-> TRUE, geo |-> geo, mouseEvent |-> mouseEvent, chain |-> chain,
    pre |-> pre, calls |-> calls ]

\* What the previous invocation with the same inputs saw and did.
NoBefore == [pre |-> NoPlayer, calls |-> <<>>]

\* A handled mousemove repeats the remembered one when geometry, pointer and
\* offset chain are identical.
Repeats(kind, delivered, geo, mouseEvent, chain) ==
  /\ kind = "mousemove" /\ delivered /\ ev.last.def
  /\ ev.last.geo = geo /\ ev.last.mouseEvent = mouseEvent /\ ev.last.chain = chain

\* Record of the last DOM event dispatched since the last start()/stop():
\* what was sampled, the player before it, and what the handler (if one was
\* registered) did.
Event(kind, delivered, geo, mouseEvent, chain, pre, res) ==
  [ kind |-> kind, delivered |-> delivered, geo |-> geo, mouseEvent |-> mouseEvent,
    chain |-> chain, pre |-> pre, calls |-> res.calls, raised |-> res.raised,
    escaped |-> res.escaped, idx |-> res.idx,
    again |-> Repeats(kind, delivered, geo, mouseEvent, chain),
    before |-> IF Repeats(kind, delivered, geo, mouseEvent, chain)
                 THEN [pre |-> ev.last.pre, calls |-> ev.last.calls] ELSE NoBefore,
    last |-> NoLast ]

NoEvent ==
  [ kind |-> "none", delivered |-> FALSE, geo |-> NoGeo, mouseEvent |-> NoPointer,
    chain |-> <<>>, pre |-> NoPlayer,
    calls |-> <<>>, raised |-> FALSE, escaped |-> FALSE, idx |-> 0,
    again |-> FALSE, before |-> NoBefore, last |-> NoLast ]

\* An event with no registered handler: nothing runs, nothing is sampled.
Undelivered(kind) ==
  [NoEvent EXCEPT !.kind = kind, !.pre = player]

NoListeners ==
  [scroll |-> FALSE, mouseenter |-> FALSE, mouseleave |-> FALSE, onmousemove |-> FALSE]

\* The object this.player refers to: a lottie AnimationItem with its
\* flags, or an object without any of them.
Players(kind) ==
  IF kind = "AnimationItem"
    THEN [ kind : {"AnimationItem"}, loop : BOOLEAN, isPaused : BOOLEAN,
           totalFrames : TotalFramesSet ]
    ELSE { [NoPlayer EXCEPT !.kind = kind] }

Init ==
  /\ \E opts \in Options : inst = Construct(opts)
  /\ listeners = NoListeners
  /\ life = "new"
  /\ player \in Players(inst.player)
  /\ ev = NoEvent

\* Lines 71-84.
StartListeners(self, l) ==
  [ scroll |-> l.scroll \/ self.mode = "scroll",
    mouseenter |-> l.mouseenter \/ self.mode = "hover",
    mouseleave |-> l.mouseleave \/ self.mode = "hover",
    onmousemove |-> l.onmousemove \/ self.mode = "mouseposition" ]

\* Lines 86-95.
StopListeners(self, l) ==
  [ scroll |-> l.scroll /\ self.mode # "scroll",
    mouseenter |-> l.mouseenter /\ self.mode # "hover",
    mouseleave |-> l.mouseleave /\ self.mode # "hover",
    onmousemove |-> l.onmousemove ]

\* There is an instance to call methods on and to register handlers of.
Constructed == ~inst.threw

\* Lines 77-81: with no container, `this.container.addEventListener` and
\* `this.container.onmousemove = ...` are TypeErrors; nothing is attached.
StartThrows(self) ==
  self.container = "undefined" /\ self.mode \in {"hover", "mouseposition"}

\* Lines 91-94: stop() touches the container in hover mode only.
StopThrows(self) ==
  self.container = "undefined" /\ self.mode = "hover"

Start ==
  /\ Constructed
  /\ IF StartThrows(inst)
       THEN life' = "startThrew" /\ UNCHANGED listeners
       ELSE life' = "started" /\ listeners' = StartListeners(inst, listeners)
  /\ ev' = NoEvent
  /\ UNCHANGED <<inst, player>>

\* Faulty variant: stop() also drops the configured actions.
StopForgetting ==
  /\ Constructed
  /\ IF StopThrows(inst)
       THEN life' = "stopThrew" /\ UNCHANGED listeners
       ELSE life' = "stopped" /\ listeners' = StopListeners(inst, listeners)
  /\ ev' = NoEvent
  /\ inst' = [inst EXCEPT !.actions = <<>>]
  /\ UNCHANGED player

Stop ==
  /\ Constructed
  /\ IF StopThrows(inst)
       THEN life' = "stopThrew" /\ UNCHANGED listeners
       ELSE life' = "stopped" /\ listeners' = StopListeners(inst, listeners)
  /\ ev' = NoEvent
  /\ UNCHANGED <<inst, player>>

\* Outcome of dispatching one event to a registered handler.
Deliver(kind, geo, mouseEvent, chain, res) ==
  /\ player' = res.player
  /\ ev' = Event(kind, TRUE, geo, mouseEvent, chain, player, res)
  /\ UNCHANGED <<inst, listeners, life>>

Skip(kind) ==
  /\ ev' = Undelivered(kind)
  /\ UNCHANGED <<inst, listeners, life, player>>

ScrollEvent ==
  /\ Constructed
  /\ IF listeners.scroll
       THEN \E geo \in Geometries :
              Deliver("scroll", geo, NoPointer, <<>>, scrollHandler(inst, player, geo))
       ELSE Skip("scroll")

MouseEnterEvent ==
  /\ Constructed
  /\ IF listeners.mouseenter
       THEN \E geo \in Geometries :
              Deliver("mouseenter", geo, NoPointer, <<>>,
                      hoverStartHandler(inst, player, geo))
       ELSE Skip("mouseenter")

MouseLeaveEvent ==
  /\ Constructed
  /\ IF listeners.mouseleave
       THEN \E geo \in Geometries :
              Deliver("mouseleave", geo, NoPointer, <<>>,
                      hoverEndHandler(inst, player, geo))
       ELSE Skip("mouseleave")

MouseMoveEvent ==
  /\ Constructed
  /\ IF listeners.onmousemove
       THEN \E geo \in Geometries, mv \in Moves :
              Deliver("mousemove", geo, mv.mouseEvent, mv.chain,
                      mousePositionHandler(inst, player, geo, mv.mouseEvent, mv.chain))
       ELSE Skip("mousemove")

\* The player's paused flag changes outside the handlers (the animation
\* completes, the page plays or pauses it).  The event record is cleared,
\* a handled mousemove is remembered.
PlayerChanges ==
  /\ Constructed
  /\ player' = [player EXCEPT !.isPaused = ~@]
  /\ ev' = [NoEvent EXCEPT !.last =
               IF ev.kind = "mousemove" /\ ev.delivered
                 THEN Last(ev.geo, ev.mouseEvent, ev.chain, ev.pre, ev.calls)
                 ELSE ev.last]
  /\ UNCHANGED <<inst, listeners, life>>

Next ==
  \/ Start
  \/ Stop
  \/ ScrollEvent
  \/ MouseEnterEvent
  \/ MouseLeaveEvent
  \/ MouseMoveEvent

Spec == Init /\ [][Next]_vars

\* Pointer mode with a player whose paused flag changes between events.
InitMoves ==
  /\ Init
  /\ inst.mode = "mouseposition"
  /\ Len(inst.actions) <= MaxMoveActions

NextMoves ==
  \/ Next
  \/ PlayerChanges

SpecMoves == InitMoves /\ [][NextMoves]_vars

\* Every form of the options, and a zero-width range among the actions.
MaxWideActions == 1

WideUniverse ==
  ActionUniverse \cup { Action(Dec(5), Dec(5), "seek", Frames(<<0, 100>>)) }

WideActionLists == UNION { [1..n -> WideUniverse] : n \in 0..MaxWideActions }

WideOptions ==
  [ mode : Modes, actions : WideActionLists, player : AllPlayerForms,
    container : ContainerForms, playerInstance : HandleForms ]

InitWide ==
  /\ \E opts \in WideOptions : inst = Construct(opts)
  /\ listeners = NoListeners
  /\ life = "new"
  /\ player \in Players(inst.player)
  /\ ev = NoEvent

SpecWide == InitWide /\ [][Next]_vars

----------------------------------------------------------------------------
(* Properties.                                                             *)

\* The sample of the last event and what the action list says about it.
Current(g) == g.vh - g.top
Max(g) == g.vh + g.height
Below0(g) == Current(g) < 0
Above1(g) == Current(g) > Max(g)
InUnit(g) == Max(g) > 0 /\ Current(g) >= 0 /\ Current(g) <= Max(g)
Contains(a, g) ==
  /\ Current(g) * a.start.d >= a.start.n * Max(g)
  /\ Current(g) * a.end.d <= a.end.n * Max(g)
Matches(g) == InUnit(g) /\ \E i \in DOMAIN inst.actions : Contains(inst.actions[i], g)
Handled == ev.delivered
Resolved == inst.actions[ev.idx]

SeekAction == Action(Dec(5), Dec(7), "seek", Frames(<<0, 100>>))
LoopAction == Action(Dec(0), Dec(3), "loop", Frames(<<0, 100>>))
StopAction == Action(Dec(0), Dec(10), "stop", Frames(<<10, 50>>))
YAxisAction == Action(Dec(-10), Dec(20), "seek-yaxis", Undefined)

\* C1: once stop() has been called, an event dispatched afterwards runs no
\* handler: it is not delivered, issues no player call and changes no
\* player flag, in every mode.
C1_StopDetachesAll ==
  (life = "stopped" /\ ev.kind # "none") =>
    (~ev.delivered /\ ev.calls = <<>> /\ player = ev.pre)

\* C2: no handler invocation lets an exception escape to the caller.
C2_NoExceptionEscapes == Handled => ~ev.escaped

C2_Witness ==
  /\ Handled /\ ev.raised /\ ~ev.escaped
  /\ ev.kind = "scroll" /\ ev.idx # 0 /\ ~Resolved.frames.def

\* C3: whenever a handler raises internally, the player after the handler
\* is the player before the event and no player method has been called.
C3_RaiseLeavesPlayerUntouched ==
  (Handled /\ ev.raised) => (player = ev.pre /\ ev.calls = <<>>)

\* C4: for a sample in [0,1] the resolved action is the one of smallest
\* index whose inclusive range contains currentPercent (none when no range
\* contains it), and every frame range passed to the player is that action's.
C4_FirstMatchWins ==
  (Handled /\ InUnit(ev.geo)) =>
    /\ ev.idx \in 0..Len(inst.actions)
    /\ ev.idx # 0 => Contains(Resolved, ev.geo)
    /\ \A j \in DOMAIN inst.actions :
         (ev.idx = 0 \/ j < ev.idx) => ~Contains(inst.actions[j], ev.geo)
    /\ \A k \in DOMAIN ev.calls :
         ev.calls[k].frames.def => (ev.idx # 0 /\ ev.calls[k].frames = Resolved.frames)

C4_Witness ==
  /\ Handled /\ InUnit(ev.geo) /\ Len(inst.actions) = 2
  /\ inst.actions[1] # inst.actions[2]
  /\ inst.actions[1].frames # inst.actions[2].frames
  /\ Contains(inst.actions[1], ev.geo) /\ Contains(inst.actions[2], ev.geo)
  /\ ev.idx = 1 /\ ev.calls # <<>>

\* C5: a sample whose currentPercent is below 0 or above 1 resolves no
\* action, whatever the action list, and the handler issues no player call.
C5_OutsideViewportNothing ==
  (Handled /\ (Below0(ev.geo) \/ Above1(ev.geo))) =>
    (ev.idx = 0 /\ ev.calls = <<>>)

C5_Witness ==
  /\ Handled /\ Above1(ev.geo) /\ Max(ev.geo) > 0
  /\ ev.kind = "mousemove" /\ inst.playerInstance = "elem"
  /\ \E i \in DOMAIN inst.actions :
       inst.actions[i] = YAxisAction /\ Contains(YAxisAction, ev.geo)
  /\ ev.idx = 0 /\ ev.calls = <<>>

\* C6 (as stated): every handled scroll tick leaves player.loop true, also
\* when no action matches the sample.
C6_LoopAfterEveryTick ==
  (Handled /\ ev.kind = "scroll") => player.loop = TRUE

\* C6 (amended): a handled scroll tick whose sample resolves an action
\* leaves player.loop true; a tick whose sample resolves none leaves
\* player.loop as it was.
C6_LoopAfterResolvedTick ==
  (Handled /\ ev.kind = "scroll") =>
    IF Matches(ev.geo) THEN player.loop = TRUE ELSE player.loop = ev.pre.loop

C6_Witness ==
  /\ Handled /\ ev.kind = "scroll" /\ Matches(ev.geo)
  /\ ~ev.pre.loop /\ player.loop

\* C7: when no action's range contains the sample's currentPercent the
\* handler issues no player call, changes no player flag and lets no
\* exception escape.
C7_NoMatchIsSilent ==
  (Handled /\ Max(ev.geo) > 0
     /\ \A i \in DOMAIN inst.actions : ~Contains(inst.actions[i], ev.geo)) =>
    (ev.calls = <<>> /\ player = ev.pre /\ ~ev.escaped)

C7_Witness ==
  /\ Handled /\ ev.kind = "scroll" /\ ev.geo = Geo(-280, 400, 800)
  /\ inst.actions = <<LoopAction>>
  /\ ~ev.pre.loop /\ ev.pre.isPaused
  /\ ev.calls = <<>> /\ player = ev.pre

\* C8 (as stated): top=100, height=400, viewport 800, the single seek action
\* [0.5,0.7] with frames [0,100], totalFrames=200: one scroll tick sets
\* loop, calls playSegments([0,100], true), then goToAndStop(83, true).
C8_SeekScenario83 ==
  (Handled /\ ev.kind = "scroll" /\ ev.geo = Geo(100, 400, 800)
     /\ inst.actions = <<SeekAction>> /\ ev.pre.totalFrames = 200) =>
    /\ player.loop = TRUE
    /\ ev.calls = << PlaySegments(Frames(<<0, 100>>), "true"),
                     GoToAndStop(Int2Num(83), "true") >>

\* C8 (amended): in that scenario the tick sets loop, calls
\* playSegments([0,100], true), then goToAndStop(84, true): the frame is
\* ceil(((700/1200 - 0.5) / 0.2) * 200) = ceil(83.33) = 84.
C8_SeekScenario84 ==
  (Handled /\ ev.kind = "scroll" /\ ev.geo = Geo(100, 400, 800)
     /\ inst.actions = <<SeekAction>> /\ ev.pre.totalFrames = 200) =>
    /\ player.loop = TRUE
    /\ ev.calls = << PlaySegments(Frames(<<0, 100>>), "true"),
                     GoToAndStop(Int2Num(84), "true") >>

C8_Witness ==
  /\ Handled /\ ev.kind = "scroll" /\ ev.geo = Geo(100, 400, 800)
  /\ inst.actions = <<SeekAction>> /\ ev.pre.totalFrames = 200
  /\ ~ev.pre.loop /\ Len(ev.calls) = 2

\* C9: in hover mode with a resolved stop action (frames given), the enter
\* event issues exactly goToAndStop(frames[0]) then stop(), and the leave
\* event issues exactly playSegments(frames, true), whatever isPaused is.
C9_HoverStopAsymmetry ==
  (Handled /\ ev.idx # 0 /\ Resolved.type = "stop" /\ Resolved.frames.def) =>
    /\ ev.kind = "mouseenter" =>
         ev.calls = << GoToAndStop(Int2Num(Resolved.frames.v[1]), "undefined"),
                       PlayerStop >>
    /\ ev.kind = "mouseleave" =>
         ev.calls = << PlaySegments(Resolved.frames, "true") >>

C9_Witness ==
  /\ Handled /\ ev.kind = "mouseleave" /\ ev.idx # 0 /\ Resolved = StopAction
  /\ ev.pre.isPaused
  /\ ev.calls = << PlaySegments(Frames(<<10, 50>>), "true") >>
  /\ ~player.isPaused

\* C10: in mouseposition mode every pointer move whose resolved action is
\* seek-yaxis (seek-xaxis) invokes seek exactly once with ceil(ypos/height*100)%
\* (ceil(xpos/bottom*100)%), for every form of the player option.
C10_SeekOnEveryMove ==
  (Handled /\ ev.kind = "mousemove" /\ ev.idx # 0) =>
    LET xpos == ev.mouseEvent.pageX - SumLeft(ev.chain)
        ypos == ev.mouseEvent.pageY - SumTop(ev.chain)
        height == ev.geo.height
        bottom == ev.geo.top + ev.geo.height
        pct(pos, div) == MathCeil(NumMul(NumDiv(Int2Num(pos), Int2Num(div)), Int2Num(100)))
    IN  /\ Resolved.type = "seek-yaxis" => ev.calls = << Seek(pct(ypos, height)) >>
        /\ Resolved.type = "seek-xaxis" => ev.calls = << Seek(pct(xpos, bottom)) >>

PlayAction == Action(Dec(3), Dec(7), "play", Frames(<<0, 100>>))

\* The listeners start() attaches for a mode (spec section 4.4).
ModeListeners(mode) ==
  [ scroll |-> mode = "scroll", mouseenter |-> mode = "hover",
    mouseleave |-> mode = "hover", onmousemove |-> mode = "mouseposition" ]

\* The action types of each handler's transition table.
Table(kind) ==
  CASE kind = "scroll" -> {"seek", "loop", "play", "stop"}
    [] kind \in {"mouseenter", "mouseleave"} -> {"loop", "play", "stop"}
    [] kind = "mousemove" -> {"seek-xaxis", "seek-yaxis"}
    [] OTHER -> {}

\* C13: the registered listeners are exactly the mode's set when the last
\* lifecycle call was start() and empty when it was stop().
C13_ListenersFollowLifecycle ==
  /\ life = "started" => listeners = ModeListeners(inst.mode)
  /\ life = "stopped" => listeners = NoListeners

\* C15 (as stated): for a resolved play action the playback calls are
\* guarded by the paused flag: resetSegments() then play() (scroll) or
\* playSegments(frames) (hover enter) when paused, no call otherwise.
C15_PlayGuardedByPaused ==
  (Handled /\ ev.idx # 0 /\ Resolved.type = "play" /\ Resolved.frames.def) =>
    /\ ev.kind = "scroll" =>
         ev.calls = IF ev.pre.isPaused THEN <<ResetSegments, PlayerPlay>> ELSE <<>>
    /\ ev.kind = "mouseenter" =>
         ev.calls = IF ev.pre.isPaused
                      THEN <<ResetSegments, PlaySegments(Resolved.frames, "undefined")>>
                      ELSE <<>>

\* C15 (amended): only resetSegments() is guarded by the paused flag;
\* play() (scroll) and the non-forced playSegments(frames) (hover enter)
\* are issued on every such event, after the reset when there is one.
C15_OnlyResetGuarded ==
  (Handled /\ ev.idx # 0 /\ Resolved.type = "play" /\ Resolved.frames.def) =>
    LET reset == IF ev.pre.isPaused THEN <<ResetSegments>> ELSE <<>>
    IN  /\ ev.kind = "scroll" => ev.calls = reset \o <<PlayerPlay>>
        /\ ev.kind = "mouseenter" =>
             ev.calls = reset \o <<PlaySegments(Resolved.frames, "undefined")>>

C15_Witness ==
  /\ Handled /\ ev.kind = "mouseenter" /\ ev.idx # 0 /\ Resolved = PlayAction
  /\ ~ev.pre.isPaused
  /\ ev.calls = <<PlaySegments(Frames(<<0, 100>>), "undefined")>>

\* C16: for a resolved loop action, a scroll tick or a hover enter calls
\* playSegments(frames, true) exactly when the player was paused at the
\* time of the event, and the player is then running, so that the next
\* tick in the range restarts nothing unless the player got paused again.
C16_LoopRestartsOnlyWhenPaused ==
  (Handled /\ ev.kind \in {"scroll", "mouseenter"} /\ ev.idx # 0
     /\ Resolved.type = "loop" /\ Resolved.frames.def) =>
    /\ ev.calls = IF ev.pre.isPaused
                    THEN <<PlaySegments(Resolved.frames, "true")>> ELSE <<>>
    /\ ~player.isPaused

C16_Witness ==
  /\ Handled /\ ev.kind = "scroll" /\ ev.idx # 0 /\ Resolved = LoopAction
  /\ ~ev.pre.isPaused /\ ev.calls = <<>>

\* C17: in mouseposition mode resolution matches the pointer offset
\* normalised by the container's size, not the container's position in
\* the viewport: a first action of type seek-yaxis whose range contains
\* ypos / height is resolved wherever the container is scrolled.
C17_PointerDecidesResolution ==
  (Handled /\ ev.kind = "mousemove" /\ ev.geo.height > 0
     /\ Len(inst.actions) >= 1 /\ inst.actions[1].type = "seek-yaxis") =>
    LET a == inst.actions[1]
        ypos == ev.mouseEvent.pageY - SumTop(ev.chain)
        inside == /\ ypos * a.start.d >= a.start.n * ev.geo.height
                  /\ ypos * a.end.d <= a.end.n * ev.geo.height
    IN  (ev.idx = 1) <=> inside

\* C18: no start(), stop() or DOM event changes the instance's mode,
\* actions, container, player reference or playerInstance.
C18_InstanceUnchanged == [][inst' = inst]_vars

C18_Witness ==
  /\ Handled /\ ev.calls # <<>> /\ inst.actions # <<>> /\ life = "started"
  /\ player # ev.pre

\* C20: a resolved action whose type is not in the handler's own
\* transition table results in no player method call and no exception.
C20_ForeignTypeIgnored ==
  (Handled /\ ev.idx # 0 /\ Resolved.type \notin Table(ev.kind)) =>
    (ev.calls = <<>> /\ ~ev.raised /\ ~ev.escaped)

C20_Witness ==
  /\ Handled /\ ev.kind = "mousemove" /\ inst.playerInstance = "elem"
  /\ ev.idx # 0 /\ Resolved = LoopAction /\ ev.pre.isPaused
  /\ ev.calls = <<>>

\* C14: a pointer-move handled with the same geometry, pointer coordinates
\* and action list as the previous handled pointer-move issues the same
\* seek calls, whatever the player's state has become in between.
C14_RepeatedMoveSameSeek == ev.again => ev.calls = ev.before.calls

C14_Witness ==
  /\ Handled /\ ev.again /\ ev.pre.isPaused # ev.before.pre.isPaused
  /\ inst.playerInstance = "elem"
  /\ Len(ev.calls) = 1 /\ ev.calls[1].m = "seek"

\* C11: when the playerInstance option was supplied, a pointer move that
\* resolves a seek-xaxis or seek-yaxis action issues exactly one seek, on
\* the supplied handle.
C11_SeekOnSuppliedHandle ==
  (Handled /\ ev.kind = "mousemove" /\ inst.handle = "supplied" /\ ev.idx # 0
     /\ Resolved.type \in {"seek-yaxis", "seek-xaxis"}) =>
    /\ Len(ev.calls) = 1
    /\ ev.calls[1].m = "seek"
    /\ ev.calls[1].on = "playerInstance"
    /\ inst.playerInstance = "handle"

\* C12: construction throws exactly when the player option resolves to no
\* usable player: a rejected option is never a usable form, and every
\* instance that was constructed holds an AnimationItem.
C12_ThrowsIffNoUsablePlayer ==
  IF inst.threw
    THEN inst.option \notin PlayerForms
    ELSE inst.player = "AnimationItem"

\* C19: a scroll tick on a usable player that resolves a seek action with
\* frames and 0 <= start <= end <= 1 passes goToAndStop a whole number
\* between 0 and totalFrames.
C19_SeekFrameWellDefined ==
  (Handled /\ ev.kind = "scroll" /\ ev.idx # 0 /\ ev.pre.kind = "AnimationItem"
     /\ Resolved.type = "seek" /\ Resolved.frames.def
     /\ NumLe(Int2Num(0), Resolved.start) /\ NumLe(Resolved.start, Resolved.end)
     /\ NumLe(Resolved.end, Int2Num(1))) =>
    /\ Len(ev.calls) = 2
    /\ ev.calls[2].m = "goToAndStop"
    /\ IsFin(ev.calls[2].num)
    /\ ev.calls[2].num.d = 1
    /\ ev.calls[2].num.n \in 0..ev.pre.totalFrames


====
